---- MODULE Spec2Model ----
(***************************************************************************)
(* Contact search of imessage-mcp: discovery of the AddressBook databases, *)
(* the cross-database pagination of contact handles, the normalisation and *)
(* deduplication of the rows, and the pagination metadata.                  *)
(*                                                                         *)
(* A JavaScript string is a sequence of one-character strings; the SQL     *)
(* NULL is the value NULL below, which is no string.                        *)
(***************************************************************************)
EXTENDS Integers, Sequences, FiniteSets, TLC

\* ------------------------------------------------------------------ bounds
MaxDbs == 3         \* databases handed to one search
MaxCount == 2       \* matching rows in one database
MaxLimit == 2       \* largest limit argument
MaxOffset == 2      \* largest offset argument of the first call
MaxNormRows == 3    \* rows handed to the normalizer on its own
MaxPrefix == 2      \* free characters in front of a phone number's digit run
MaxRun == 11        \* longest run of digits inside a phone number
MaxSuffix == 1      \* free characters after the digit run
MaxEntries == 3     \* entries of the AddressBook Sources directory
MaxServerDbs == 2   \* AddressBook databases one discovery of the server finds
MaxToolCalls == 2   \* tool invocations of one server run

\* ----------------------------------------------------------------- strings
NULL == <<"null">>

Digits == {"0", "1", "2", "3", "4", "5", "6", "7", "8", "9"}

DigitOf == <<"0", "1", "2", "3", "4", "5", "6", "7", "8", "9">>

LetterOf == <<"a", "b", "c", "d", "e", "f", "g", "h", "i", "j">>

\* ASCII codes of the characters the model uses (SQLite compares bytes)
CharCode(c) ==
    CASE c = " " -> 32 [] c = "+" -> 43 [] c = "-" -> 45
      [] c = "0" -> 48 [] c = "1" -> 49 [] c = "2" -> 50 [] c = "3" -> 51
      [] c = "4" -> 52 [] c = "5" -> 53 [] c = "6" -> 54 [] c = "7" -> 55
      [] c = "8" -> 56 [] c = "9" -> 57 [] c = "@" -> 64
      [] c = "a" -> 97 [] c = "b" -> 98 [] c = "c" -> 99 [] c = "d" -> 100
      [] c = "e" -> 101 [] c = "f" -> 102 [] c = "g" -> 103 [] c = "h" -> 104
      [] c = "i" -> 105 [] c = "j" -> 106 [] c = "|" -> 124

RECURSIVE StrLess(_, _)
StrLess(s, t) ==
    IF t = <<>> THEN FALSE
    ELSE IF s = <<>> THEN TRUE
    ELSE IF CharCode(Head(s)) # CharCode(Head(t))
         THEN CharCode(Head(s)) < CharCode(Head(t))
         ELSE StrLess(Tail(s), Tail(t))

\* ascending order of one ORDER BY term: NULL sorts before every string
ColLess(a, b) ==
    IF a = NULL THEN b # NULL
    ELSE IF b = NULL THEN FALSE
    ELSE StrLess(a, b)

\* ORDER BY lastName, firstName, handle
OrderByLeq(r, s) ==
    IF r.lastName # s.lastName THEN ColLess(r.lastName, s.lastName)
    ELSE IF r.firstName # s.firstName THEN ColLess(r.firstName, s.firstName)
    ELSE ~ ColLess(s.handle, r.handle)

IsOrdered(rows) ==
    \A k \in 1..(Len(rows) - 1) : OrderByLeq(rows[k], rows[k + 1])

\* truthiness of a string | null value
Truthy(s) == s # NULL /\ s # <<>>

Max(a, b) == IF a >= b THEN a ELSE b

Min(a, b) == IF a <= b THEN a ELSE b

\* --------------------------------------------------- the contact normalizer
ContactHandleRow(fn, ln, org, h, t) ==
    [firstName |-> fn, lastName |-> ln, organization |-> org,
     handle |-> h, handle_type |-> t]

\* nameParts.join(" ") || "Unknown"
buildFullName(firstName, lastName, organization) ==
    LET p1 == IF Truthy(firstName) THEN <<firstName>> ELSE <<>>
        p2 == IF Truthy(lastName) THEN Append(p1, lastName) ELSE p1
        nameParts == IF p2 = <<>> /\ Truthy(organization)
                     THEN <<organization>> ELSE p2
        joined == IF Len(nameParts) = 2
                  THEN nameParts[1] \o <<" ">> \o nameParts[2]
                  ELSE IF Len(nameParts) = 1 THEN nameParts[1] ELSE <<>>
    IN  IF joined # <<>> THEN joined ELSE <<"U", "n", "k", "n", "o", "w", "n">>

\* the characters phone.replace(/[^\d+]/g, "") keeps
KeptByRegexBug(c) == c \in Digits
KeptByRegex(c) == c \in Digits \/ c = "+"

RECURSIVE StripChars(_)
StripChars(s) ==
    IF s = <<>> THEN <<>>
    ELSE IF KeptByRegex(Head(s)) THEN <<Head(s)>> \o StripChars(Tail(s))
    ELSE StripChars(Tail(s))

StartsWith(s, c) == Len(s) >= 1 /\ s[1] = c

TenDigits == 10

ElevenDigits == 11

normalizePhoneNumber(phone) ==
    LET cleaned == StripChars(phone)
    IN  IF StartsWith(cleaned, "+") THEN cleaned
        ELSE IF Len(cleaned) = TenDigits THEN <<"+", "1">> \o cleaned
        ELSE IF Len(cleaned) = ElevenDigits /\ StartsWith(cleaned, "1")
             THEN <<"+">> \o cleaned
        ELSE IF cleaned # <<>> THEN cleaned ELSE phone

RowName(row) == buildFullName(row.firstName, row.lastName, row.organization)

RowHandle(row) ==
    IF row.handle_type = "phone" THEN normalizePhoneNumber(row.handle)
    ELSE row.handle

\* `${name}|${handle}`
DedupKey(name, handle) == name \o <<"|">> \o handle

\* the loop of transformToContactInfo from a given seen set and results list
RECURSIVE TransformFrom(_, _, _)
TransformFrom(rows, seen, results) ==
    IF rows = <<>> THEN results
    ELSE LET row == Head(rows)
             name == RowName(row)
             handle == RowHandle(row)
             key == DedupKey(name, handle)
         IN  IF handle = <<>> THEN TransformFrom(Tail(rows), seen, results)
             ELSE IF key \in seen THEN TransformFrom(Tail(rows), seen, results)
             ELSE TransformFrom(Tail(rows), seen \cup {key},
                                Append(results, [name |-> name, phone |-> handle]))

transformToContactInfo(rows) == TransformFrom(rows, {}, <<>>)

\* ------------------------------------------------------ the databases
\* A database is the ordered list of the rows that match the search (what the
\* data query yields without LIMIT and OFFSET) and how its queries behave.
\* row j of database k: databases 2m-1 and 2m hold the same contacts with
\* differently formatted phone numbers, every third one starts with an empty
\* e-mail address
SourceRow(k, j) ==
    LET fn == <<LetterOf[(k + 1) \div 2]>>
    IN  IF k % 3 = 0 /\ j = 1
        THEN ContactHandleRow(fn, NULL, NULL, <<>>, "email")
        ELSE IF k % 2 = 1
        THEN ContactHandleRow(fn, NULL, NULL, <<"5", DigitOf[j + 1]>>, "phone")
        ELSE ContactHandleRow(fn, NULL, NULL, <<"5", "-", DigitOf[j + 1]>>, "phone")

MakeDatabase(k, count, mode) ==
    [id |-> k, rows |-> [j \in 1..count |-> SourceRow(k, j)], mode |-> mode]

\* mode "ok": both queries succeed; "fetchThrows": the data query raises;
\* "countThrows": the count query raises. A database whose count query throws
\* is never read further, so one such database stands for all of them; the
\* data query of a database without rows is never issued.
DatabaseShapes ==
    {[count |-> c, mode |-> "ok"] : c \in 0..MaxCount}
        \cup {[count |-> c, mode |-> "fetchThrows"] : c \in 1..MaxCount}
        \cup {[count |-> 1, mode |-> "countThrows"]}

DatabaseLists ==
    UNION {
        {[k \in 1..n |-> MakeDatabase(k, shapes[k].count, shapes[k].mode)] :
            shapes \in [1..n -> DatabaseShapes]}
        : n \in 0..MaxDbs}

\* SELECT COUNT(*) ... of one database; threw = the query raised
countContactHandles(db) ==
    IF db.mode = "countThrows" THEN [threw |-> TRUE, total |-> 0]
    ELSE [threw |-> FALSE, total |-> Len(db.rows)]

\* ORDER BY ... LIMIT ? OFFSET ? (a negative LIMIT is no limit, a negative
\* OFFSET is 0)
SqlLimitOffset(rows, lim, off) ==
    LET skip == Max(off, 0)
        last == IF lim < 0 THEN Len(rows) ELSE Min(Len(rows), skip + lim)
    IN  SubSeq(rows, skip + 1, last)

fetchContactHandles(db, lim, off) ==
    IF db.mode = "fetchThrows" THEN [threw |-> TRUE, rows |-> <<>>]
    ELSE [threw |-> FALSE, rows |-> SqlLimitOffset(db.rows, lim, off)]

\* ------------------------------------- searchContactHandlesAcrossDatabases
\* if (remainingOffset >= dbCount)
SkipsDatabaseBug(remOffset, dbCount) == remOffset > dbCount
SkipsDatabase(remOffset, dbCount) == remOffset >= dbCount

\* if (remainingLimit <= 0)
PageIsFull(remLimit) == remLimit <= 0

\* continue: the databases after a full page are still counted
NextWhenFullBug(i, n) == n + 1
NextWhenFull(i, n) == i + 1

\* remainingOffset = 0
OffsetAfterFetchBug(remOffset) == remOffset
OffsetAfterFetch(remOffset) == 0

\* remainingLimit -= rows.length
LimitAfterFetchBug(remLimit, rows) == remLimit
LimitAfterFetch(remLimit, rows) == remLimit - Len(rows)

\* catch (error) { console.error(...) }: the loop goes on with the next database
NextAfterCatchBug(i, n) == n + 1
NextAfterCatch(i, n) == i + 1

\* --------------------------------------------------- searchContactsByName
JsInt(n) == [kind |-> "int", val |-> n]

JsNaN == [kind |-> "NaN", val |-> 0]

JsInfinity == [kind |-> "Infinity", val |-> 0]

\* offset + limit < total
HasMoreBug(off, lim, total) == off + lim <= total
HasMore(off, lim, total) == off + lim < total

\* Math.floor(offset / limit) + 1 in IEEE arithmetic, offset >= 0
Page(off, lim) ==
    IF lim = 0 THEN (IF off = 0 THEN JsNaN ELSE JsInfinity)
    ELSE IF lim > 0 THEN JsInt((off \div lim) + 1)
    ELSE JsInt(0 - (((off + (0 - lim)) - 1) \div (0 - lim)) + 1)

CeilDiv(a, b) == (a + b - 1) \div b

\* limit > 0 ? Math.ceil(total / limit) : 0
TotalPagesBug(lim, total) == IF lim > 0 THEN total \div lim ELSE 0
TotalPages(lim, total) == IF lim > 0 THEN CeilDiv(total, lim) ELSE 0

PaginatedResult(rows, total, lim, off) ==
    [data |-> transformToContactInfo(rows),
     pagination |-> [total |-> total, limit |-> lim, offset |-> off,
                     hasMore |-> HasMore(off, lim, total),
                     page |-> Page(off, lim),
                     totalPages |-> TotalPages(lim, total)]]

\* ------------------------------------------------------------ the search
\* One client of search_contacts: a first call with any limit and offset, then
\* the documented paging (offset += limit while hasMore).
VARIABLES
    databases,        \* contactsDatabases
    limit, offset,    \* the arguments of the call in progress
    pc,               \* "count", "fetch": inside the loop; "returned"
    dbIndex,          \* the database the loop is at
    totalAcrossDbs, remainingOffset, remainingLimit, results,
    queryLog,         \* the queries of the call in progress, in order
    response,         \* what the last finished call returned
    firstOffset,      \* offset of the first call
    calls,            \* calls started so far
    fetched           \* the raw rows of every finished call, in order

VARIABLES
    normRows,         \* the rows handed to transformToContactInfo on its own
    normOut,          \* what it returned
    normPc            \* "call", "done"

VARIABLES
    phoneIn,          \* the argument of normalizePhoneNumber on its own
    phoneOut,         \* what it returned
    phonePc           \* "call", "done"

VARIABLES
    baseReadable,     \* Deno.readDirSync of the Sources directory succeeds
    dirEntries,       \* the entries of the Sources directory, in listing order
    openPc,           \* "readdir", "open", "returned"
    sourcesDirs,      \* the entries that are directories (by position)
    openIndex,        \* the candidate the loop is at
    opened            \* the local databases: positions of the opened candidates

VARIABLES
    srvPc,            \* where main is: "start" ... "running", or "exited"
    nextConn,         \* the next connection new Database creates
    openConns,        \* the connections that are open
    closedConns,      \* the connections that were closed
    srvMessagesDb,    \* createServer's messagesDatabase (0: none)
    srvContactsDbs,   \* createServer's contactsDatabases
    testMessagesDb,   \* main's messagesDatabase (0: none)
    testContactsDbs,  \* main's contactsDatabases
    toolCalls,        \* tool invocations so far
    lastCall          \* the last invocation: tool, connections passed, all open

serverVars == <<srvPc, nextConn, openConns, closedConns, srvMessagesDb,
                srvContactsDbs, testMessagesDb, testContactsDbs, toolCalls,
                lastCall>>

normVars == <<normRows, normOut, normPc>>

phoneVars == <<phoneIn, phoneOut, phonePc>>

openVars == <<baseReadable, dirEntries, openPc, sourcesDirs, openIndex, opened>>

searchVars == <<databases, limit, offset, pc, dbIndex, totalAcrossDbs,
                remainingOffset, remainingLimit, results, queryLog, response,
                firstOffset, calls, fetched>>

NoResponse == [data |-> <<>>,
               pagination |-> [total |-> 0, limit |-> 0, offset |-> 0,
                               hasMore |-> FALSE, page |-> JsInt(1),
                               totalPages |-> 0]]

Limits == (0 - 1)..MaxLimit

Offsets == 0..MaxOffset

SearchInit ==
    /\ databases \in DatabaseLists
    /\ \A k \in 1..Len(databases) : IsOrdered(databases[k].rows)
    /\ limit \in Limits
    /\ offset \in Offsets
    /\ pc = "count"
    /\ dbIndex = 1
    /\ totalAcrossDbs = 0
    /\ remainingOffset = offset
    /\ remainingLimit = limit
    /\ results = <<>>
    /\ queryLog = <<>>
    /\ response = NoResponse
    /\ firstOffset = offset
    /\ calls = 1
    /\ fetched = <<>>

LogEntry(op) ==
    [op |-> op, db |-> dbIndex, remOffset |-> remainingOffset,
     remLimit |-> remainingLimit]

\* one pass of the loop body up to the fetch: lines 208-222
CountDatabase ==
    /\ pc = "count"
    /\ dbIndex <= Len(databases)
    /\ LET n == Len(databases)
           c == countContactHandles(databases[dbIndex])
           dbCount == c.total
       IN  /\ queryLog' = Append(queryLog, LogEntry("count"))
           /\ IF c.threw
              THEN /\ dbIndex' = NextAfterCatch(dbIndex, n)
                   /\ UNCHANGED <<pc, totalAcrossDbs, remainingOffset>>
              ELSE /\ totalAcrossDbs' = totalAcrossDbs + dbCount
                   /\ IF SkipsDatabase(remainingOffset, dbCount)
                      THEN /\ remainingOffset' = remainingOffset - dbCount
                           /\ dbIndex' = dbIndex + 1
                           /\ pc' = "count"
                      ELSE IF PageIsFull(remainingLimit)
                      THEN /\ dbIndex' = NextWhenFull(dbIndex, n)
                           /\ UNCHANGED <<pc, remainingOffset>>
                      ELSE /\ pc' = "fetch"
                           /\ UNCHANGED <<dbIndex, remainingOffset>>
    /\ UNCHANGED <<databases, limit, offset, remainingLimit, results, response,
                   firstOffset, calls, fetched>>
    /\ UNCHANGED <<normVars, phoneVars, openVars, serverVars>>

\* the rest of the loop body: lines 224-239
FetchDatabase ==
    /\ pc = "fetch"
    /\ LET n == Len(databases)
           f == fetchContactHandles(databases[dbIndex], remainingLimit,
                                    remainingOffset)
       IN  /\ queryLog' = Append(queryLog, LogEntry("fetch"))
           /\ pc' = "count"
           /\ IF f.threw
              THEN /\ dbIndex' = NextAfterCatch(dbIndex, n)
                   /\ UNCHANGED <<results, remainingOffset, remainingLimit>>
              ELSE /\ results' = results \o f.rows
                   /\ remainingOffset' = OffsetAfterFetch(remainingOffset)
                   /\ remainingLimit' = LimitAfterFetch(remainingLimit, f.rows)
                   /\ dbIndex' = dbIndex + 1
    /\ UNCHANGED <<databases, limit, offset, totalAcrossDbs, response,
                   firstOffset, calls, fetched>>
    /\ UNCHANGED <<normVars, phoneVars, openVars, serverVars>>

\* the loop is over: searchContactsByName builds its result, lines 349-367
ReturnResult ==
    /\ pc = "count"
    /\ dbIndex > Len(databases)
    /\ response' = PaginatedResult(results, totalAcrossDbs, limit, offset)
    /\ fetched' = fetched \o results
    /\ pc' = "returned"
    /\ UNCHANGED <<databases, limit, offset, dbIndex, totalAcrossDbs,
                   remainingOffset, remainingLimit, results, queryLog,
                   firstOffset, calls>>
    /\ UNCHANGED <<normVars, phoneVars, openVars, serverVars>>

\* the client asks for the next page through the search_contacts tool, whose
\* schema admits limit >= 1 and offset >= 0
NextPage ==
    /\ pc = "returned"
    /\ response.pagination.hasMore
    /\ limit >= 1
    /\ offset' = offset + limit
    /\ remainingOffset' = offset + limit
    /\ remainingLimit' = limit
    /\ pc' = "count"
    /\ dbIndex' = 1
    /\ totalAcrossDbs' = 0
    /\ results' = <<>>
    /\ queryLog' = <<>>
    /\ calls' = calls + 1
    /\ UNCHANGED <<databases, limit, response, firstOffset, fetched>>
    /\ UNCHANGED <<normVars, phoneVars, openVars, serverVars>>

\* ------------------------------------------------- the normalizer alone
NormPool ==
    {ContactHandleRow(<<"a", "|", "b">>, NULL, NULL, <<"c">>, "email"),
     ContactHandleRow(<<"a">>, NULL, NULL, <<"b", "|", "c">>, "email"),
     ContactHandleRow(<<"a">>, NULL, NULL, <<"5", "-", "1">>, "phone"),
     ContactHandleRow(<<"a">>, NULL, NULL, <<"5", "1">>, "phone"),
     ContactHandleRow(<<"a">>, NULL, NULL, <<>>, "email"),
     ContactHandleRow(NULL, NULL, <<"a">>, <<"c">>, "email")}

SeqsUpTo(S, n) == UNION {[1..m -> S] : m \in 0..n}

NormInit ==
    /\ normRows \in SeqsUpTo(NormPool, MaxNormRows)
    /\ normOut = <<>>
    /\ normPc = "call"

NormIdle ==
    /\ normRows = <<>>
    /\ normOut = <<>>
    /\ normPc = "idle"

\* ---------------------------------------------- phone normalization alone
PhoneAlphabet == {"1", "5", "+", "-"}

RunOfFives(n) == [k \in 1..n |-> "5"]

PhoneExamples ==
    {<<"5", "5", "5", "-", "1", "2", "3", "-", "4", "5", "6", "7">>,
     <<"1", "5", "5", "5", "1", "2", "3", "4", "5", "6", "7">>,
     <<"+", "4", "4", " ", "2", "0", " ", "7", "9", "4", "6", " ", "0", "9", "5", "8">>,
     <<"a", "b">>}

PhoneInit ==
    /\ \/ phoneIn \in PhoneExamples
       \/ \E p \in SeqsUpTo(PhoneAlphabet, MaxPrefix), n \in 0..MaxRun,
             s \in SeqsUpTo(PhoneAlphabet, MaxSuffix) :
             phoneIn = p \o RunOfFives(n) \o s
    /\ phoneOut = <<>>
    /\ phonePc = "call"

PhoneIdle ==
    /\ phoneIn = <<>>
    /\ phoneOut = <<>>
    /\ phonePc = "idle"

\* ------------------------------------------------------- discovery alone
\* What one entry of the Sources directory is:
\*   "file"       not a directory
\*   "missing"    a directory; Deno.statSync of its database path throws
\*   "notfile"    a directory; its database path is not a regular file
\*   "unopenable" a directory with a database file that new Database rejects
\*   "ok"         a directory with a database file that opens
EntryKinds == {"file", "missing", "notfile", "unopenable", "ok"}

OpenInit ==
    /\ baseReadable \in BOOLEAN
    /\ dirEntries \in SeqsUpTo(EntryKinds, MaxEntries)
    /\ openPc = "readdir"
    /\ sourcesDirs = <<>>
    /\ openIndex = 1
    /\ opened = <<>>

OpenIdle ==
    /\ baseReadable = TRUE
    /\ dirEntries = <<>>
    /\ openPc = "idle"
    /\ sourcesDirs = <<>>
    /\ openIndex = 1
    /\ opened = <<>>

SearchIdle ==
    /\ databases = <<>>
    /\ limit = 0
    /\ offset = 0
    /\ pc = "idle"
    /\ dbIndex = 1
    /\ totalAcrossDbs = 0
    /\ remainingOffset = 0
    /\ remainingLimit = 0
    /\ results = <<>>
    /\ queryLog = <<>>
    /\ response = NoResponse
    /\ firstOffset = 0
    /\ calls = 0
    /\ fetched = <<>>

\* transformToContactInfo(rows)
Normalize ==
    /\ normPc = "call"
    /\ normOut' = transformToContactInfo(normRows)
    /\ normPc' = "done"
    /\ UNCHANGED <<normRows, searchVars, phoneVars, openVars, serverVars>>

\* normalizePhoneNumber(phone)
NormalizePhone ==
    /\ phonePc = "call"
    /\ phoneOut' = normalizePhoneNumber(phoneIn)
    /\ phonePc' = "done"
    /\ UNCHANGED <<phoneIn, searchVars, normVars, openVars, serverVars>>

IsDirectory(kind) == kind # "file"

\* lines 33-40: list the base directory; a failure is caught at line 64
ReadSourcesDir ==
    /\ openPc = "readdir"
    /\ IF baseReadable
       THEN /\ sourcesDirs' = SelectSeq([k \in 1..Len(dirEntries) |-> k],
                                        LAMBDA k : IsDirectory(dirEntries[k]))
            /\ openPc' = "open"
       ELSE /\ openPc' = "returned"
            /\ UNCHANGED sourcesDirs
    /\ UNCHANGED <<baseReadable, dirEntries, openIndex, opened>>
    /\ UNCHANGED <<searchVars, normVars, phoneVars, serverVars>>

\* lines 43-61: one candidate; an exception of new Database leaves the loop
\* for the catch at line 64, which returns the databases opened so far
OpenCandidate ==
    /\ openPc = "open"
    /\ openIndex <= Len(sourcesDirs)
    /\ LET kind == dirEntries[sourcesDirs[openIndex]]
       IN  IF kind \in {"missing", "notfile"}
           THEN /\ openIndex' = openIndex + 1
                /\ UNCHANGED <<openPc, opened>>
           ELSE IF kind = "unopenable"
           THEN /\ openPc' = "returned"
                /\ UNCHANGED <<openIndex, opened>>
           ELSE /\ opened' = Append(opened, sourcesDirs[openIndex])
                /\ openIndex' = openIndex + 1
                /\ UNCHANGED openPc
    /\ UNCHANGED <<baseReadable, dirEntries, sourcesDirs>>
    /\ UNCHANGED <<searchVars, normVars, phoneVars, serverVars>>

\* line 63: return databases
ReturnDatabases ==
    /\ openPc = "open"
    /\ openIndex > Len(sourcesDirs)
    /\ openPc' = "returned"
    /\ UNCHANGED <<baseReadable, dirEntries, sourcesDirs, openIndex, opened>>
    /\ UNCHANGED <<searchVars, normVars, phoneVars, serverVars>>

\* ------------------------------------------------------ the server process
NoCall == [tool |-> "none", conns |-> {}, allOpen |-> TRUE]

ServerIdle ==
    /\ srvPc = "idle"
    /\ nextConn = 1
    /\ openConns = {}
    /\ closedConns = {}
    /\ srvMessagesDb = 0
    /\ srvContactsDbs = <<>>
    /\ testMessagesDb = 0
    /\ testContactsDbs = <<>>
    /\ toolCalls = 0
    /\ lastCall = NoCall

ServerInit ==
    /\ srvPc = "start"
    /\ nextConn = 1
    /\ openConns = {}
    /\ closedConns = {}
    /\ srvMessagesDb = 0
    /\ srvContactsDbs = <<>>
    /\ testMessagesDb = 0
    /\ testContactsDbs = <<>>
    /\ toolCalls = 0
    /\ lastCall = NoCall

\* openMessagesDatabase(): a new read-only connection, owned by the caller
openMessagesDatabase(next) == next

\* openContactsDatabases() finding n databases: new Database for each
NewContactsConnections(next, n) == [k \in 1..n |-> next + k - 1]

Range(f) == {f[k] : k \in DOMAIN f}

\* messagesDatabase.close() in main closes main's own local
ClosedByMessagesTest(testDb, serverDb) == {testDb}

\* for (const db of contactsDatabases) db.close() in main: main's own local
ClosedByContactsTestBug(testDbs, serverDbs) == Range(serverDbs)
ClosedByContactsTest(testDbs, serverDbs) == Range(testDbs)

MessageTools ==
    {"search_messages", "get_recent_messages", "get_chats", "get_handles",
     "get_messages_from_chat"}

Tools == MessageTools \cup {"search_contacts"}

\* the connections the handler of a tool passes to the library
ToolConnections(tool) ==
    IF tool \in MessageTools THEN {srvMessagesDb} ELSE Range(srvContactsDbs)

\* createServer: lines 143-150; an exception of openMessagesDatabase ends
\* main in Deno.exit(1), lines 422-425
CreateServer ==
    /\ srvPc = "start"
    /\ \E opens \in BOOLEAN, n \in 0..MaxServerDbs :
         IF opens
         THEN /\ srvMessagesDb' = openMessagesDatabase(nextConn)
              /\ srvContactsDbs' = NewContactsConnections(nextConn + 1, n)
              /\ openConns' = openConns \cup {openMessagesDatabase(nextConn)}
                                \cup Range(NewContactsConnections(nextConn + 1, n))
              /\ nextConn' = nextConn + 1 + n
              /\ srvPc' = "testMessages"
         ELSE /\ srvPc' = "exited"
              /\ UNCHANGED <<srvMessagesDb, srvContactsDbs, openConns, nextConn>>
    /\ UNCHANGED <<closedConns, testMessagesDb, testContactsDbs, toolCalls, lastCall>>
    /\ UNCHANGED <<searchVars, normVars, phoneVars, openVars>>

\* the startup access to the messages database: lines 369-391
TestMessagesDatabase ==
    /\ srvPc = "testMessages"
    /\ \E outcome \in {"openThrows", "queryThrows", "closed"} :
         IF outcome = "openThrows"
         THEN UNCHANGED <<testMessagesDb, openConns, closedConns, nextConn>>
         ELSE /\ testMessagesDb' = openMessagesDatabase(nextConn)
              /\ nextConn' = nextConn + 1
              /\ IF outcome = "queryThrows"
                 THEN /\ openConns' = openConns \cup {openMessagesDatabase(nextConn)}
                      /\ UNCHANGED closedConns
                 ELSE LET conns == openConns \cup {openMessagesDatabase(nextConn)}
                          closing == ClosedByMessagesTest(
                                        openMessagesDatabase(nextConn), srvMessagesDb)
                      IN  /\ openConns' = conns \ closing
                          /\ closedConns' = closedConns \cup closing
    /\ srvPc' = "testContacts"
    /\ UNCHANGED <<srvMessagesDb, srvContactsDbs, testContactsDbs, toolCalls, lastCall>>
    /\ UNCHANGED <<searchVars, normVars, phoneVars, openVars>>

\* the startup test of the contacts search: lines 393-416
TestContactsDatabases ==
    /\ srvPc = "testContacts"
    /\ \E n \in 0..MaxServerDbs :
         LET dbs == NewContactsConnections(nextConn, n)
             closing == ClosedByContactsTest(dbs, srvContactsDbs)
         IN  /\ testContactsDbs' = dbs
             /\ nextConn' = nextConn + n
             /\ openConns' = (openConns \cup Range(dbs)) \ closing
             /\ closedConns' = closedConns \cup closing
    /\ srvPc' = "connect"
    /\ UNCHANGED <<srvMessagesDb, srvContactsDbs, testMessagesDb, toolCalls, lastCall>>
    /\ UNCHANGED <<searchVars, normVars, phoneVars, openVars>>

\* await server.connect(transport): lines 418-419
ConnectTransport ==
    /\ srvPc = "connect"
    /\ srvPc' = "running"
    /\ UNCHANGED <<nextConn, openConns, closedConns, srvMessagesDb, srvContactsDbs,
                   testMessagesDb, testContactsDbs, toolCalls, lastCall>>
    /\ UNCHANGED <<searchVars, normVars, phoneVars, openVars>>

\* a client invokes a tool: its handler passes createServer's connections
InvokeTool ==
    /\ srvPc = "running"
    /\ toolCalls < MaxToolCalls
    /\ \E tool \in Tools :
         lastCall' = [tool |-> tool, conns |-> ToolConnections(tool),
                      allOpen |-> ToolConnections(tool) \subseteq openConns]
    /\ toolCalls' = toolCalls + 1
    /\ UNCHANGED <<srvPc, nextConn, openConns, closedConns, srvMessagesDb,
                   srvContactsDbs, testMessagesDb, testContactsDbs>>
    /\ UNCHANGED <<searchVars, normVars, phoneVars, openVars>>

\* ------------------------------------------------------ specifications
vars == <<searchVars, normVars, phoneVars, openVars, serverVars>>

Init == SearchInit /\ NormIdle /\ PhoneIdle /\ OpenIdle /\ ServerIdle

Next == CountDatabase \/ FetchDatabase \/ ReturnResult \/ NextPage

Spec == Init /\ [][Next]_vars

InitNorm == SearchIdle /\ NormInit /\ PhoneIdle /\ OpenIdle /\ ServerIdle

NextNorm == Normalize

SpecNorm == InitNorm /\ [][NextNorm]_vars

InitPhone == SearchIdle /\ NormIdle /\ PhoneInit /\ OpenIdle /\ ServerIdle

NextPhone == NormalizePhone

SpecPhone == InitPhone /\ [][NextPhone]_vars

InitOpen == SearchIdle /\ NormIdle /\ PhoneIdle /\ OpenInit /\ ServerIdle

NextOpen == ReadSourcesDir \/ OpenCandidate \/ ReturnDatabases

SpecOpen == InitOpen /\ [][NextOpen]_vars

InitServer == SearchIdle /\ NormIdle /\ PhoneIdle /\ OpenIdle /\ ServerInit

NextServer ==
    CreateServer \/ TestMessagesDatabase \/ TestContactsDatabases
        \/ ConnectTransport \/ InvokeTool

SpecServer == InitServer /\ [][NextServer]_vars

\* ------------------------------------------------- what the claims speak of
RECURSIVE Flatten(_)
Flatten(ss) == IF ss = <<>> THEN <<>> ELSE Head(ss) \o Flatten(Tail(ss))

RECURSIVE SumSeq(_)
SumSeq(ns) == IF ns = <<>> THEN 0 ELSE Head(ns) + SumSeq(Tail(ns))

Counts == [k \in 1..Len(databases) |-> Len(databases[k].rows)]

AllRows == Flatten([k \in 1..Len(databases) |-> databases[k].rows])

NoFailures == \A k \in 1..Len(databases) : databases[k].mode = "ok"

\* the rows at positions off+1 .. off+lim of a list
Window(rows, off, lim) == SubSeq(rows, off + 1, Min(Len(rows), off + lim))

IsCount(e) == e.op = "count"

IsFetch(e) == e.op = "fetch"

CountedDbs == LET cs == SelectSeq(queryLog, IsCount) IN [k \in 1..Len(cs) |-> cs[k].db]

FetchedDbs == {queryLog[p].db : p \in {q \in 1..Len(queryLog) : IsFetch(queryLog[q])}}

Returned == pc = "returned"

\* C1: without failures and with limit >= 0, offset >= 0, the raw rows of a
\* search are the slice [offset, offset+limit) of the concatenation, in
\* database order, of every database's ordered matching rows.
C1_GlobalWindow ==
    (Returned /\ NoFailures /\ limit >= 0 /\ offset >= 0)
        => results = Window(AllRows, offset, limit)

\* the page starts inside database 1, ends inside database 2, and database 3
\* is not fetched
C1_Witness ==
    /\ Returned /\ NoFailures
    /\ Len(databases) = 3 /\ Counts = <<2, 2, 2>>
    /\ offset = 1 /\ limit = 2
    /\ results = <<SourceRow(1, 2), SourceRow(2, 1)>>
    /\ FetchedDbs = {1, 2}

\* C2: without failures the reported total is the sum of the counts of every
\* database, whatever the limit and offset.
C2_TotalIsSum ==
    (Returned /\ NoFailures) => response.pagination.total = SumSeq(Counts)

\* database 1 is skipped by the offset, database 2 fills the page, database 3
\* has rows and is never fetched
C2_Witness ==
    /\ Returned /\ NoFailures
    /\ Len(databases) = 3 /\ Counts = <<1, 2, 2>>
    /\ offset = 1 /\ limit = 1
    /\ FetchedDbs = {2}
    /\ response.pagination.total = 5
    /\ Len(results) = 1

FollowsProtocol == firstOffset = 0 /\ NoFailures /\ limit >= 1

\* C3: a client paging from offset 0 by limit while hasMore makes a bounded
\* number of calls, and what it has fetched after each call is the first
\* offset+limit rows of the concatenation: in the end every row exactly once.
C3_PagingCoversAll ==
    FollowsProtocol =>
        /\ offset = (calls - 1) * limit
        /\ calls = 1 \/ offset < SumSeq(Counts)
        /\ Returned => fetched = Window(AllRows, 0, offset + limit)
        /\ (Returned /\ ~ response.pagination.hasMore) => fetched = AllRows

\* three pages over three databases, the last page a short one
C3_Witness ==
    /\ FollowsProtocol /\ Returned
    /\ ~ response.pagination.hasMore
    /\ Counts = <<2, 1, 2>> /\ limit = 2 /\ calls = 3
    /\ fetched = AllRows
    /\ Len(results) = 1

SucceededCounts ==
    [k \in 1..Len(databases) |->
        IF databases[k].mode = "countThrows" THEN 0 ELSE Len(databases[k].rows)]

\* C4: with failing queries the search still returns, every database is still
\* counted, and total is the sum of the counts that succeeded, the count of a
\* database whose fetch failed included.
C4_FailuresKeepTotal ==
    /\ (pc = "count" /\ dbIndex > Len(databases)) => ENABLED ReturnResult
    /\ dbIndex <= Len(databases) + 1
    /\ Returned =>
        /\ CountedDbs = [k \in 1..Len(databases) |-> k]
        /\ response.pagination.total = SumSeq(SucceededCounts)

\* a count fails, a later fetch fails after its count was added, the last
\* database is still counted, and total exceeds the rows returned although
\* the window covers everything
C4_Witness ==
    /\ Returned
    /\ Len(databases) = 3
    /\ databases[1].mode = "countThrows"
    /\ databases[2].mode = "fetchThrows" /\ 2 \in FetchedDbs
    /\ databases[3].mode = "ok"
    /\ Counts = <<1, 1, 1>>
    /\ offset = 0 /\ limit = 2
    /\ response.pagination.total = 2
    /\ Len(results) = 1

\* C5: hasMore is exactly offset + limit < total, totalPages is
\* ceil(total / limit) for limit > 0 and 0 otherwise, and limit and offset are
\* returned unchanged.
C5_PaginationMetadata ==
    Returned =>
        LET pg == response.pagination
        IN  /\ pg.hasMore <=> (offset + limit < pg.total)
            /\ limit > 0 =>
                 /\ pg.totalPages * limit >= pg.total
                 /\ (pg.totalPages - 1) * limit < pg.total
            /\ limit <= 0 => pg.totalPages = 0
            /\ pg.limit = limit /\ pg.offset = offset
            /\ pg.total = totalAcrossDbs

\* the window ends exactly at the last row, on a second page, and total is no
\* multiple of limit
C5_Witness ==
    /\ Returned
    /\ response.pagination.total = 5 /\ limit = 2 /\ offset = 3
    /\ ~ response.pagination.hasMore
    /\ response.pagination.totalPages = 3

\* C6: every returned pagination has total an integer >= 0, page an integer
\* >= 1 and totalPages an integer >= 0, for every integer limit.
C6_PageAtLeastOne ==
    Returned =>
        LET pg == response.pagination
        IN  /\ pg.total >= 0
            /\ pg.page.kind = "int" /\ pg.page.val >= 1
            /\ pg.totalPages >= 0

\* the (name, handle) pairs the claim expects: first occurrences, in order
RECURSIVE DedupByPair(_, _)
DedupByPair(rows, seenPairs) ==
    IF rows = <<>> THEN <<>>
    ELSE LET pair == <<RowName(Head(rows)), RowHandle(Head(rows))>>
         IN  IF pair[2] = <<>> \/ pair \in seenPairs
             THEN DedupByPair(Tail(rows), seenPairs)
             ELSE <<[name |-> pair[1], phone |-> pair[2]]>>
                  \o DedupByPair(Tail(rows), seenPairs \cup {pair})

\* C7: the normalizer's output holds one entry per distinct pair (name,
\* normalized handle) with a non-empty handle, the first occurrence, in the
\* order of first occurrences.
C7_DedupByPair ==
    normPc = "done" => normOut = DedupByPair(normRows, {})

IsDigit(c) == c \in Digits

IsDigitOrPlus(c) == c \in Digits \/ c = "+"

\* what the normalization returns for a cleaned string
PhoneRule(cleaned, phone) ==
    IF cleaned # <<>> /\ cleaned[1] = "+" THEN cleaned
    ELSE IF Len(cleaned) = 10 THEN <<"+", "1">> \o cleaned
    ELSE IF Len(cleaned) = 11 /\ cleaned[1] = "1" THEN <<"+">> \o cleaned
    ELSE IF cleaned = <<>> THEN phone ELSE cleaned

\* digits and a leading "+" only
LeadingPlusClean(phone) ==
    LET kept == SelectSeq(phone, IsDigitOrPlus)
    IN  IF kept # <<>> /\ kept[1] = "+"
        THEN <<"+">> \o SelectSeq(kept, IsDigit)
        ELSE SelectSeq(kept, IsDigit)

\* C8 as stated: the cleaned string keeps the digits and a leading "+".
C8_LeadingPlusOnly ==
    phonePc = "done" => phoneOut = PhoneRule(LeadingPlusClean(phoneIn), phoneIn)

\* C8 as amended: the cleaned string keeps the digits and every "+", and the
\* lengths 10 and 11 are lengths of that cleaned string.
C8_EveryPlusKept ==
    phonePc = "done" =>
        phoneOut = PhoneRule(SelectSeq(phoneIn, IsDigitOrPlus), phoneIn)

\* "555-123-4567" gives "+15551234567"
C8_Witness ==
    /\ phonePc = "done"
    /\ phoneIn = <<"5", "5", "5", "-", "1", "2", "3", "-", "4", "5", "6", "7">>
    /\ phoneOut = <<"+", "1", "5", "5", "5", "1", "2", "3", "4", "5", "6", "7">>

OkCandidates ==
    SelectSeq([k \in 1..Len(dirEntries) |-> k], LAMBDA k : dirEntries[k] = "ok")

\* C9: discovery never raises, returns the handles of every candidate whose
\* database file exists and opens, in listing order, and returns the empty
\* list when the base directory is unreadable.
C9_OnlyBadCandidateExcluded ==
    /\ openPc \in {"idle", "readdir", "open", "returned"}
    /\ openPc = "returned" =>
         opened = (IF baseReadable THEN OkCandidates ELSE <<>>)

\* C10: the counts of one search are one per database in list order; a fetch
\* comes right after the count of the same database, and only when that count
\* exceeds the remaining offset and the remaining limit is positive; every
\* database is counted, also after the page is full.
C10_QueryDiscipline ==
    /\ CountedDbs = [k \in 1..Len(CountedDbs) |-> k]
    /\ (pc = "count" /\ Len(queryLog) > 0) => Len(CountedDbs) = dbIndex - 1
    /\ Returned => Len(CountedDbs) = Len(databases)
    /\ \A p \in 1..Len(queryLog) :
         IsFetch(queryLog[p]) =>
            /\ p > 1
            /\ IsCount(queryLog[p - 1])
            /\ queryLog[p - 1].db = queryLog[p].db
            /\ Len(databases[queryLog[p].db].rows) > queryLog[p].remOffset
            /\ queryLog[p].remLimit > 0

\* the page is full after database 1; databases 2 and 3 have rows, are counted
\* and are not fetched
C10_Witness ==
    /\ Returned
    /\ Counts = <<2, 1, 2>> /\ offset = 0 /\ limit = 2
    /\ Len(queryLog) = 4
    /\ FetchedDbs = {1}
    /\ CountedDbs = <<1, 2, 3>>

\* searchContactHandlesAcrossDatabases as a function of its arguments: the
\* rows it returns, from database i on
RECURSIVE AggregateFrom(_, _, _, _, _)
AggregateFrom(dbs, i, remOffset, remLimit, rows) ==
    IF i > Len(dbs) THEN rows
    ELSE LET n == Len(dbs)
             c == countContactHandles(dbs[i])
             f == fetchContactHandles(dbs[i], remLimit, remOffset)
         IN  IF c.threw
             THEN AggregateFrom(dbs, NextAfterCatch(i, n), remOffset, remLimit, rows)
             ELSE IF SkipsDatabase(remOffset, c.total)
             THEN AggregateFrom(dbs, i + 1, remOffset - c.total, remLimit, rows)
             ELSE IF PageIsFull(remLimit)
             THEN AggregateFrom(dbs, NextWhenFull(i, n), remOffset, remLimit, rows)
             ELSE IF f.threw
             THEN AggregateFrom(dbs, NextAfterCatch(i, n), remOffset, remLimit, rows)
             ELSE AggregateFrom(dbs, i + 1, OffsetAfterFetch(remOffset),
                                LimitAfterFetch(remLimit, f.rows), rows \o f.rows)

AggregateRows(dbs, lim, off) == AggregateFrom(dbs, 1, off, lim, <<>>)

\* the log entries of the queries that raised
IsFailedQuery(e) ==
    \/ IsCount(e) /\ databases[e.db].mode = "countThrows"
    \/ IsFetch(e) /\ databases[e.db].mode = "fetchThrows"

FailedDbs ==
    {queryLog[p].db : p \in {q \in 1..Len(queryLog) : IsFailedQuery(queryLog[q])}}

IsNotFailed(db) == db.id \notin FailedDbs

WithoutFailedDbs == SelectSeq(databases, IsNotFailed)

\* C11: a database whose count or fetch raised leaves the remaining offset
\* and the remaining limit as they were before it, and the rows of the search
\* are the rows of the same search over the list without the failed databases.
C11_FailedSourceIsTransparent ==
    /\ \A p \in 1..Len(queryLog) :
         IsFailedQuery(queryLog[p]) =>
            LET e == queryLog[p]
                after == IF p < Len(queryLog)
                         THEN [remOffset |-> queryLog[p + 1].remOffset,
                               remLimit |-> queryLog[p + 1].remLimit]
                         ELSE [remOffset |-> remainingOffset,
                               remLimit |-> remainingLimit]
                countEntry == IF IsCount(e) THEN e ELSE queryLog[p - 1]
            IN  /\ after.remOffset = countEntry.remOffset
                /\ after.remLimit = countEntry.remLimit
                /\ countEntry.db = e.db
    /\ Returned => results = AggregateRows(WithoutFailedDbs, limit, offset)

\* the fetch of database 1 raises inside the window, the count of database 2
\* raises, and the page comes from database 3 with the offset still to skip
C11_Witness ==
    /\ Returned
    /\ Len(databases) = 3
    /\ databases[1].mode = "fetchThrows" /\ Len(databases[1].rows) = 2
    /\ databases[2].mode = "countThrows"
    /\ databases[3].mode = "ok" /\ Len(databases[3].rows) = 2
    /\ offset = 1 /\ limit = 2
    /\ FailedDbs = {1, 2}
    /\ results = <<SourceRow(3, 2)>>

ServerConns == {srvMessagesDb} \cup Range(srvContactsDbs)

TestConns ==
    (IF testMessagesDb = 0 THEN {} ELSE {testMessagesDb}) \cup Range(testContactsDbs)

HasEmptyHandle(row) == RowHandle(row) = <<>>

HasHandle(row) == RowHandle(row) # <<>>

\* the rows of the databases whose count query succeeded
CountedRows ==
    Flatten([k \in 1..Len(databases) |->
                IF databases[k].mode = "countThrows" THEN <<>>
                ELSE databases[k].rows])

\* C13: the rows collected are at most max(limit, 0), the remaining limit
\* never goes below 0 for limit >= 0, data has at most as many entries as rows
\* were collected and holds no entry with an empty handle, while total counts
\* every row of the databases counted, the rows with an empty handle included.
C13_PageNeverOverfull ==
    /\ Len(results) <= Max(limit, 0)
    /\ limit >= 0 => remainingLimit >= 0
    /\ Returned =>
        /\ Len(response.data) <= Len(SelectSeq(results, HasHandle))
        /\ Len(response.data) <= Len(results)
        /\ \A k \in 1..Len(response.data) : response.data[k].phone # <<>>
        /\ response.pagination.total =
             Len(SelectSeq(CountedRows, HasEmptyHandle))
               + Len(SelectSeq(CountedRows, HasHandle))

\* the page is full with a row of database 2 and the empty e-mail address of
\* database 3: data holds one entry, total counts all four rows
C13_Witness ==
    /\ Returned /\ NoFailures
    /\ Counts = <<1, 1, 2>> /\ offset = 1 /\ limit = 2
    /\ results = <<SourceRow(2, 1), SourceRow(3, 1)>>
    /\ HasEmptyHandle(SourceRow(3, 1))
    /\ Len(response.data) = 1
    /\ response.pagination.total = 4
    /\ remainingLimit = 0

====
